---- MODULE Spec2Model ----
(***************************************************************************)
(* Monte Carlo Tree Search move selection (mcts_modified.py).              *)
(*                                                                         *)
(* The search tree is a heap of MCTSNode objects addressed by allocation   *)
(* index (1 is the root); a Python dict is a sequence of <<key, value>>    *)
(* pairs in insertion order; a Python list is a sequence; None is 0 for a  *)
(* node reference and <<>> for an action or an outcome mapping.            *)
(* The game engine is a single 3x3 board of noughts and crosses whose      *)
(* actions are the 4-tuples <<R, C, r, c>> that rollout unpacks.           *)
(***************************************************************************)
EXTENDS Integers, Sequences, FiniteSets, TLC

\* ------------------------------------------------------------------ bounds
MaxNumNodes == 6      \* largest simulation budget tried (the module sets 1000)
MaxEmpty == 4         \* most empty cells of a position think is invoked on
MaxVisits == 7        \* most visits of a child in a hand-built tree
MaxRootVisits == 11   \* most visits of the root of a hand-built tree
MaxDeepNodes == 9     \* the budget of the longer searches

\* ------------------------------------------------------- program constants
explore_faction == 2
Scale == 10 ^ 4                \* fixed-point unit of a floating-point score
Inf == 10 ^ 9                  \* float('inf'): above every finite score
MathError == 0 - 1             \* log(0) / attribute of None: the call raises
NoNode == 0
NoAction == << >>
NoOutcome == << >>

\* floor(Scale * ln(p)) for p = 1..12
LnTable == <<0, 6931, 10986, 13862, 16094, 17917, 19459, 20794, 21972, 23025, 23978, 24849>>

\* floor of the square root, one binary digit at a time
RECURSIVE ISqrtBits(_, _, _)
ISqrtBits(n, r, bit) ==
    IF bit = 0 THEN r
    ELSE IF (r + bit) * (r + bit) <= n THEN ISqrtBits(n, r + bit, bit \div 2)
                                       ELSE ISqrtBits(n, r, bit \div 2)

ISqrt(n) == ISqrtBits(n, 0, 2 ^ 14)

\* ------------------------------------------------------------ game engine
Players == {1, 2}
Cells == 1..9
Lines == { {1,2,3}, {4,5,6}, {7,8,9}, {1,4,7}, {2,5,8}, {3,6,9}, {1,5,9}, {3,5,7} }

CellOf(action) == 3 * action[3] + action[4] + 1
ActionOf(cell) == <<0, 0, (cell - 1) \div 3, (cell - 1) % 3>>

EmptyBoard == [k \in Cells |-> 0]

Count(state, p) == Cardinality({ k \in Cells : state[k] = p })

current_player(state) == IF Count(state, 1) = Count(state, 2) THEN 1 ELSE 2

HasLine(state, p) == \E l \in Lines : \A k \in l : state[k] = p

is_ended(state) == HasLine(state, 1) \/ HasLine(state, 2) \/ Count(state, 0) = 0

RECURSIVE EmptyFrom(_, _)
EmptyFrom(state, k) ==
    IF k > 9 THEN << >>
    ELSE IF state[k] = 0 THEN <<ActionOf(k)>> \o EmptyFrom(state, k + 1)
                         ELSE EmptyFrom(state, k + 1)

legal_actions(state) == IF is_ended(state) THEN << >> ELSE EmptyFrom(state, 1)

next_state(state, action) ==
    [state EXCEPT ![CellOf(action)] = current_player(state)]

points_values(state) ==
    IF ~is_ended(state) THEN NoOutcome
    ELSE IF HasLine(state, 1) THEN <<1, 0 - 1>>
    ELSE IF HasLine(state, 2) THEN <<0 - 1, 1>>
    ELSE <<0, 0>>

\* Positions of play: the openings below, cut after any number of moves.
Openings ==
    { <<1, 2, 3, 5, 4, 6, 8, 7, 9>>,
      <<5, 1, 9, 3, 2, 8, 4, 6, 7>>,
      <<1, 5, 2, 3, 7, 4, 6, 9, 8>>,
      <<5, 2, 1, 9, 3, 7, 4, 6, 8>>,
      <<1, 4, 2, 5, 9, 7, 8, 3, 6>>,
      <<1, 2, 3, 4, 6, 7, 8, 9, 5>> }

RECURSIVE PlayPrefix(_, _)
PlayPrefix(moves, k) ==
    IF k = 0 THEN EmptyBoard
    ELSE LET before == PlayPrefix(moves, k - 1)
         IN IF is_ended(before) \/ before[moves[k]] # 0 THEN before
            ELSE next_state(before, ActionOf(moves[k]))

StartStates ==
    { s \in { PlayPrefix(o, k) : o \in Openings, k \in 0..9 } : Count(s, 0) <= MaxEmpty }

\* ---------------------------------------------------------------- MCTSNode
MCTSNode(parent, parent_action, action_list) ==
    [ parent |-> parent,
      parent_action |-> parent_action,
      child_nodes |-> << >>,
      untried_actions |-> action_list,
      wins |-> 0,
      visits |-> 0 ]

\* dict helpers: a dict is a sequence of <<key, value>> in insertion order
Keys(d) == { d[i][1] : i \in 1..Len(d) }
ValuesOf(d) == [i \in 1..Len(d) |-> d[i][2]]
DictSet(d, key, value) ==
    IF key \in Keys(d)
    THEN [i \in 1..Len(d) |-> IF d[i][1] = key THEN <<key, value>> ELSE d[i]]
    ELSE Append(d, <<key, value>>)
SeqSet(s) == { s[i] : i \in 1..Len(s) }

\* max(iterable, key=...): the first element of greatest key
MaxIndex(keys) ==
    CHOOSE i \in 1..Len(keys) :
        /\ \A j \in 1..Len(keys) : keys[j] <= keys[i]
        /\ \A j \in 1..(i - 1) : keys[j] < keys[i]

VARIABLES
    current_state,   \* think's argument
    num_nodes,       \* the simulation budget
    bot_identity,
    tree,            \* node id -> MCTSNode; 1 is root_node
    pc,              \* position in think
    iter,            \* completed iterations of the loop
    node,            \* think's local `node`
    state,           \* think's local `state`
    curr_state,      \* rollout's local `curr_state`
    won,
    best_action,
    path,            \* history: nodes traversal and expansion went through
    passed,          \* history: node id -> completed iterations through it
    captured         \* history: node id -> legal actions at its creation

vars == <<current_state, num_nodes, bot_identity, tree, pc, iter, node, state,
          curr_state, won, best_action, path, passed, captured>>

root_node == 1

Last(s) == s[Len(s)]
Front(s) == SubSeq(s, 1, Len(s) - 1)
Bit(b) == IF b THEN 1 ELSE 0

\* --------------------------------------------------------------------- ucb
\* variant: a child visited once is still scored as unvisited
ucb_first_visit_inf(t, n, is_opponent) ==
    IF t[n].visits <= 1 THEN Inf
    ELSE IF t[n].parent = NoNode THEN MathError
    ELSE IF t[t[n].parent].visits <= 0 THEN MathError
    ELSE LET rate == (Scale * t[n].wins) \div t[n].visits
             win_rate == IF is_opponent THEN Scale - rate ELSE rate
             ln == LnTable[t[t[n].parent].visits]
         IN win_rate
            + ISqrt((explore_faction * explore_faction * Scale * ln) \div t[n].visits)

ucb(t, n, is_opponent) ==
    IF t[n].visits = 0 THEN Inf
    ELSE IF t[n].parent = NoNode THEN MathError
    ELSE IF t[t[n].parent].visits <= 0 THEN MathError
    ELSE LET rate == (Scale * t[n].wins) \div t[n].visits
             win_rate == IF is_opponent THEN Scale - rate ELSE rate
             ln == LnTable[t[t[n].parent].visits]
         IN win_rate
            + ISqrt((explore_faction * explore_faction * Scale * ln) \div t[n].visits)

\* ---------------------------------------------------------- traverse_nodes
\* variant: the loop descends whenever there is a child, untried actions or not
TraverseContinues_children_only(t, n) == t[n].child_nodes # << >>

TraverseContinues(t, n) == t[n].untried_actions = << >> /\ t[n].child_nodes # << >>

\* variant: the flag is taken the wrong way round (bot == current_player)
ChildScores_inverted(t, n, st, bot) ==
    [i \in 1..Len(t[n].child_nodes) |->
        ucb(t, t[n].child_nodes[i][2], bot = current_player(st))]

ChildScores(t, n, st, bot) ==
    [i \in 1..Len(t[n].child_nodes) |->
        ucb(t, t[n].child_nodes[i][2], bot # current_player(st))]

SelectChild(t, n, st, bot) ==
    ValuesOf(t[n].child_nodes)[MaxIndex(ChildScores(t, n, st, bot))]

\* ------------------------------------------------------------- expand_leaf
\* variant: the child is registered under the cell <<r, c>>, not the action
expand_leaf_cell_key(t, n, st) ==
    LET action == Last(t[n].untried_actions)
        next == next_state(st, action)
        child == Len(t) + 1
        popped == [t EXCEPT ![n].untried_actions = Front(@)]
        child_node == MCTSNode(n, action, legal_actions(next))
    IN [ tree |-> Append([popped EXCEPT ![n].child_nodes =
                              DictSet(@, <<action[3], action[4]>>, child)],
                         child_node),
         node |-> child,
         state |-> next ]

\* variant: the action is read from the end of the list but not removed
expand_leaf_no_pop(t, n, st) ==
    LET action == Last(t[n].untried_actions)
        next == next_state(st, action)
        child == Len(t) + 1
        child_node == MCTSNode(n, action, legal_actions(next))
    IN [ tree |-> Append([t EXCEPT ![n].child_nodes = DictSet(@, action, child)],
                         child_node),
         node |-> child,
         state |-> next ]

\* variant: the child is created without the link to its parent
expand_leaf_orphan(t, n, st) ==
    LET action == Last(t[n].untried_actions)
        next == next_state(st, action)
        child == Len(t) + 1
        popped == [t EXCEPT ![n].untried_actions = Front(@)]
        child_node == MCTSNode(NoNode, action, legal_actions(next))
    IN [ tree |-> Append([popped EXCEPT ![n].child_nodes = DictSet(@, action, child)],
                         child_node),
         node |-> child,
         state |-> next ]

expand_leaf(t, n, st) ==
    LET action == Last(t[n].untried_actions)
        next == next_state(st, action)
        child == Len(t) + 1
        popped == [t EXCEPT ![n].untried_actions = Front(@)]
        child_node == MCTSNode(n, action, legal_actions(next))
    IN [ tree |-> Append([popped EXCEPT ![n].child_nodes = DictSet(@, action, child)],
                         child_node),
         node |-> child,
         state |-> next ]

\* ----------------------------------------------------------------- rollout
RECURSIVE Repeat(_, _)
Repeat(x, k) == IF k = 0 THEN << >> ELSE <<x>> \o Repeat(x, k - 1)

\* variant: the weights before they were raised (3 for the center, 2 for a corner)
Weight_old(action) ==
    IF <<action[3], action[4]>> = <<1, 1>> THEN 3
    ELSE IF action[3] \in {0, 2} /\ action[4] \in {0, 2} THEN 2
    ELSE 1

Weight(action) ==
    IF <<action[3], action[4]>> = <<1, 1>> THEN 5
    ELSE IF action[3] \in {0, 2} /\ action[4] \in {0, 2} THEN 3
    ELSE 1

RECURSIVE weighted_actions(_)
weighted_actions(actions) ==
    IF actions = << >> THEN << >>
    ELSE Repeat(Head(actions), Weight(Head(actions))) \o weighted_actions(Tail(actions))

\* variant: the play-out stops when a single legal action is left
RolloutContinues_early(st) == ~is_ended(st) /\ Len(legal_actions(st)) > 1

RolloutContinues(st) == ~is_ended(st) /\ legal_actions(st) # << >>

\* ----------------------------------------------------------- backpropagate
\* variant: the walk stops below the root (while node.parent is not None)
RECURSIVE backpropagate_skip_root(_, _, _)
backpropagate_skip_root(t, n, w) ==
    IF n = NoNode \/ t[n].parent = NoNode THEN t
    ELSE backpropagate_skip_root(
             [t EXCEPT ![n].visits = @ + 1, ![n].wins = @ + Bit(w)], t[n].parent, w)

\* variant: the two counters are exchanged (visits += won; wins += 1)
RECURSIVE backpropagate_swapped(_, _, _)
backpropagate_swapped(t, n, w) ==
    IF n = NoNode THEN t
    ELSE backpropagate_swapped(
             [t EXCEPT ![n].visits = @ + Bit(w), ![n].wins = @ + 1], t[n].parent, w)

\* variant: the walk starts at the parent of the node it is given
RECURSIVE backpropagate_skip_start(_, _, _)
backpropagate_skip_start(t, n, w) ==
    IF n = NoNode \/ t[n].parent = NoNode THEN t
    ELSE LET p == t[n].parent
         IN IF t[p].parent = NoNode
            THEN [t EXCEPT ![p].visits = @ + 1, ![p].wins = @ + Bit(w)]
            ELSE backpropagate_skip_start(
                     [t EXCEPT ![p].visits = @ + 1, ![p].wins = @ + Bit(w)], p, w)

\* variant: the starting node is counted before the loop and again inside it
RECURSIVE WalkUp(_, _, _)
WalkUp(t, n, w) ==
    IF n = NoNode THEN t
    ELSE WalkUp([t EXCEPT ![n].visits = @ + 1, ![n].wins = @ + Bit(w)], t[n].parent, w)

backpropagate_start_twice(t, n, w) ==
    IF n = NoNode THEN t
    ELSE WalkUp([t EXCEPT ![n].visits = @ + 1], n, w)

RECURSIVE backpropagate(_, _, _)
backpropagate(t, n, w) ==
    IF n = NoNode THEN t
    ELSE backpropagate([t EXCEPT ![n].visits = @ + 1, ![n].wins = @ + Bit(w)],
                       t[n].parent, w)

\* --------------------------------------------------------- get_best_action
\* variant: the children are compared by wins
get_best_action_by_wins(t, root) ==
    LET items == t[root].child_nodes
    IN items[MaxIndex([i \in 1..Len(items) |-> t[items[i][2]].wins])][1]

get_best_action(t, root) ==
    LET items == t[root].child_nodes
    IN items[MaxIndex([i \in 1..Len(items) |-> t[items[i][2]].visits])][1]

\* ------------------------------------------------------------------ is_win
is_win(st, identity_of_bot) == points_values(st)[identity_of_bot] = 1

\* ------------------------------------------------------------------- think
Init ==
    /\ current_state \in StartStates
    /\ num_nodes \in 0..MaxNumNodes
    /\ bot_identity = current_player(current_state)
    /\ tree = <<MCTSNode(NoNode, NoAction, legal_actions(current_state))>>
    /\ pc = "loop"
    /\ iter = 0
    /\ node = root_node
    /\ state = current_state
    /\ curr_state = current_state
    /\ won = FALSE
    /\ best_action = NoAction
    /\ path = << >>
    /\ passed = <<0>>
    /\ captured = <<SeqSet(legal_actions(current_state))>>

\* variant: one iteration too many (range(num_nodes + 1))
IterationStart_extra ==
    /\ pc = "loop"
    /\ iter <= num_nodes
    /\ state' = current_state
    /\ node' = root_node
    /\ path' = <<root_node>>
    /\ pc' = "traverse"
    /\ UNCHANGED <<current_state, num_nodes, bot_identity, tree, iter, curr_state, won,
                   best_action, passed, captured>>

\* for _ in range(num_nodes): state = current_state; node = root_node
IterationStart ==
    /\ pc = "loop"
    /\ iter < num_nodes
    /\ state' = current_state
    /\ node' = root_node
    /\ path' = <<root_node>>
    /\ pc' = "traverse"
    /\ UNCHANGED <<current_state, num_nodes, bot_identity, tree, iter, curr_state, won,
                   best_action, passed, captured>>

\* variant: the child chosen is not assigned to node
TraverseStep_no_descend ==
    /\ pc = "traverse"
    /\ TraverseContinues(tree, node)
    /\ LET scores == ChildScores(tree, node, state, bot_identity)
           chosen == SelectChild(tree, node, state, bot_identity)
       IN IF \E i \in 1..Len(scores) : scores[i] = MathError
          THEN /\ pc' = "math_error"
               /\ UNCHANGED <<state, path>>
          ELSE /\ state' = next_state(state, tree[chosen].parent_action)
               /\ path' = path
               /\ pc' = "traverse"
    /\ UNCHANGED <<current_state, num_nodes, bot_identity, tree, iter, node, curr_state,
                   won, best_action, passed, captured>>

\* variant: the descent forgets to advance the state
TraverseStep_no_advance ==
    /\ pc = "traverse"
    /\ TraverseContinues(tree, node)
    /\ LET scores == ChildScores(tree, node, state, bot_identity)
           chosen == SelectChild(tree, node, state, bot_identity)
       IN IF \E i \in 1..Len(scores) : scores[i] = MathError
          THEN /\ pc' = "math_error"
               /\ UNCHANGED <<node, path>>
          ELSE /\ node' = chosen
               /\ path' = Append(path, chosen)
               /\ pc' = "traverse"
    /\ UNCHANGED <<current_state, num_nodes, bot_identity, tree, iter, state, curr_state,
                   won, best_action, passed, captured>>

\* one turn of the while loop of traverse_nodes
TraverseStep ==
    /\ pc = "traverse"
    /\ TraverseContinues(tree, node)
    /\ LET scores == ChildScores(tree, node, state, bot_identity)
           chosen == SelectChild(tree, node, state, bot_identity)
       IN IF \E i \in 1..Len(scores) : scores[i] = MathError
          THEN /\ pc' = "math_error"
               /\ UNCHANGED <<node, state, path>>
          ELSE /\ node' = chosen
               /\ state' = next_state(state, tree[chosen].parent_action)
               /\ path' = Append(path, chosen)
               /\ pc' = "traverse"
    /\ UNCHANGED <<current_state, num_nodes, bot_identity, tree, iter, curr_state, won,
                   best_action, passed, captured>>

\* the while condition of traverse_nodes fails: return node, state
TraverseReturn ==
    /\ pc = "traverse"
    /\ ~TraverseContinues(tree, node)
    /\ pc' = "expand"
    /\ UNCHANGED <<current_state, num_nodes, bot_identity, tree, iter, node, state,
                   curr_state, won, best_action, path, passed, captured>>

\* if node.untried_actions: node, state = expand_leaf(node, board, state)
Expand ==
    /\ pc = "expand"
    /\ tree[node].untried_actions # << >>
    /\ LET r == expand_leaf(tree, node, state)
       IN /\ tree' = r.tree
          /\ node' = r.node
          /\ state' = r.state
          /\ curr_state' = r.state
          /\ path' = Append(path, r.node)
          /\ passed' = Append(passed, 0)
          /\ captured' = Append(captured, SeqSet(legal_actions(r.state)))
    /\ pc' = "rollout"
    /\ UNCHANGED <<current_state, num_nodes, bot_identity, iter, won, best_action>>

\* variant: expansion is skipped whenever the node already has children
SkipExpand_has_children ==
    /\ pc = "expand"
    /\ tree[node].untried_actions = << >> \/ tree[node].child_nodes # << >>
    /\ curr_state' = state
    /\ pc' = "rollout"
    /\ UNCHANGED <<current_state, num_nodes, bot_identity, tree, iter, node, state,
                   won, best_action, path, passed, captured>>

\* the condition of line 136 is false: simulation starts from the node reached
SkipExpand ==
    /\ pc = "expand"
    /\ tree[node].untried_actions = << >>
    /\ curr_state' = state
    /\ pc' = "rollout"
    /\ UNCHANGED <<current_state, num_nodes, bot_identity, tree, iter, node, state,
                   won, best_action, path, passed, captured>>

\* one turn of the while loop of rollout: action = choice(weighted_actions)
RolloutStep ==
    /\ pc = "rollout"
    /\ RolloutContinues(curr_state)
    /\ LET weighted == weighted_actions(legal_actions(curr_state))
       IN \E i \in 1..Len(weighted) : curr_state' = next_state(curr_state, weighted[i])
    /\ UNCHANGED <<current_state, num_nodes, bot_identity, tree, pc, iter, node, state, won,
                   best_action, path, passed, captured>>

\* rollout returns curr_state; won = is_win(board, final_state, bot_identity)
RolloutReturn ==
    /\ pc = "rollout"
    /\ ~RolloutContinues(curr_state)
    /\ IF points_values(curr_state) = NoOutcome
       THEN pc' = "assertion_error" /\ UNCHANGED won
       ELSE pc' = "backpropagate" /\ won' = is_win(curr_state, bot_identity)
    /\ UNCHANGED <<current_state, num_nodes, bot_identity, tree, iter, node, state,
                   curr_state, best_action, path, passed, captured>>

\* backpropagate(node, won), ending the iteration
Backpropagate ==
    /\ pc = "backpropagate"
    /\ tree' = backpropagate(tree, node, won)
    /\ passed' = [i \in 1..Len(passed) |-> passed[i] + Bit(i \in SeqSet(path))]
    /\ iter' = iter + 1
    /\ pc' = "loop"
    /\ UNCHANGED <<current_state, num_nodes, bot_identity, node, state, curr_state, won,
                   best_action, path, captured>>

\* variant: max(..., default=None) answers None for a root without children
GetBestAction_default ==
    /\ pc = "loop"
    /\ iter >= num_nodes
    /\ pc' = "done"
    /\ best_action' = IF tree[root_node].child_nodes = << >> THEN NoAction
                      ELSE get_best_action(tree, root_node)
    /\ UNCHANGED <<current_state, num_nodes, bot_identity, tree, iter, node, state,
                   curr_state, won, path, passed, captured>>

\* best_action = get_best_action(root_node); max() of no items raises ValueError
GetBestAction ==
    /\ pc = "loop"
    /\ iter >= num_nodes
    /\ IF tree[root_node].child_nodes = << >>
       THEN pc' = "value_error" /\ UNCHANGED best_action
       ELSE pc' = "done" /\ best_action' = get_best_action(tree, root_node)
    /\ UNCHANGED <<current_state, num_nodes, bot_identity, tree, iter, node, state,
                   curr_state, won, path, passed, captured>>

Next ==
    \/ IterationStart
    \/ TraverseStep
    \/ TraverseReturn
    \/ Expand
    \/ SkipExpand
    \/ RolloutStep
    \/ RolloutReturn
    \/ Backpropagate
    \/ GetBestAction

Spec == Init /\ [][Next]_vars

\* the positions of one opening from four empty cells down to the full board
FairStates ==
    { PlayPrefix(<<5, 1, 9, 3, 2, 8, 4, 6, 7>>, k) : k \in 5..9 }

FairInit ==
    /\ current_state \in FairStates
    /\ num_nodes \in {0, 1, MaxNumNodes}
    /\ bot_identity = current_player(current_state)
    /\ tree = <<MCTSNode(NoNode, NoAction, legal_actions(current_state))>>
    /\ pc = "loop"
    /\ iter = 0
    /\ node = root_node
    /\ state = current_state
    /\ curr_state = current_state
    /\ won = FALSE
    /\ best_action = NoAction
    /\ path = << >>
    /\ passed = <<0>>
    /\ captured = <<SeqSet(legal_actions(current_state))>>

\* think runs on one thread without suspension: a step that can be taken is taken
FairSpec == FairInit /\ [][Next]_vars /\ WF_vars(Next)

\* ------------------------------------------------- trees built by hand
\* A root whose legal actions are all expanded, with chosen child statistics:
\* the inputs of traverse_nodes, ucb and get_best_action taken on their own.
ChildStats ==
    UNION { { [visits |-> v, wins |-> w] : w \in {0, (v + 1) \div 2} } : v \in 0..MaxVisits }

\* two positions of one opening: three legal actions, then two
UnitStates ==
    { PlayPrefix(<<5, 1, 9, 3, 2, 8, 4, 6, 7>>, k) : k \in {6, 7} }

RECURSIVE SumOver(_, _)
SumOver(f, k) == IF k = 0 THEN 0 ELSE f[k] + SumOver(f, k - 1)

\* children are registered in the order expand_leaf pops them: last action first
BuiltTree(st, stats) ==
    LET actions == legal_actions(st)
        k == Len(actions)
        action(i) == actions[k + 1 - i]
        root == [ parent |-> NoNode,
                  parent_action |-> NoAction,
                  child_nodes |-> [i \in 1..k |-> <<action(i), i + 1>>],
                  untried_actions |-> << >>,
                  wins |-> SumOver([i \in 1..k |-> stats[i].wins], k),
                  visits |-> SumOver([i \in 1..k |-> stats[i].visits], k) ]
        child(i) == [ MCTSNode(root_node, action(i),
                               legal_actions(next_state(st, action(i))))
                      EXCEPT !.wins = stats[i].wins, !.visits = stats[i].visits ]
    IN <<root>> \o [i \in 1..k |-> child(i)]

UnitInit ==
    /\ current_state \in UnitStates
    /\ bot_identity \in Players
    /\ \E stats \in [1..Len(legal_actions(current_state)) -> ChildStats] :
           /\ SumOver([i \in DOMAIN stats |-> stats[i].visits], Len(stats)) <= MaxRootVisits
           /\ tree = BuiltTree(current_state, stats)
    /\ num_nodes = tree[root_node].visits
    /\ iter = num_nodes
    /\ pc \in {"loop", "traverse"}
    /\ node = root_node
    /\ state = current_state
    /\ curr_state = current_state
    /\ won = FALSE
    /\ best_action = NoAction
    /\ path = <<root_node>>
    /\ passed = [n \in DOMAIN tree |-> tree[n].visits]
    /\ captured = [n \in DOMAIN tree |->
                      IF n = root_node THEN SeqSet(legal_actions(current_state))
                      ELSE SeqSet(tree[n].untried_actions)]

UnitNext ==
    \/ TraverseStep
    \/ GetBestAction

UnitSpec == UnitInit /\ [][UnitNext]_vars

\* ------------------------------------------------------- longer searches
\* think with one larger budget, so that the descent compares siblings below
\* the root
DeepInit ==
    /\ current_state \in StartStates
    /\ num_nodes = MaxDeepNodes
    /\ bot_identity = current_player(current_state)
    /\ tree = <<MCTSNode(NoNode, NoAction, legal_actions(current_state))>>
    /\ pc = "loop"
    /\ iter = 0
    /\ node = root_node
    /\ state = current_state
    /\ curr_state = current_state
    /\ won = FALSE
    /\ best_action = NoAction
    /\ path = << >>
    /\ passed = <<0>>
    /\ captured = <<SeqSet(legal_actions(current_state))>>

DeepSpec == DeepInit /\ [][Next]_vars

\* ------------------------------------------------------------------ claims
Nodes == DOMAIN tree
RootLegal == SeqSet(legal_actions(current_state))
Failed == pc \in {"value_error", "assertion_error", "math_error"}
ChildIds(n) == { tree[n].child_nodes[i][2] : i \in 1..Len(tree[n].child_nodes) }

\* C1: on a state with a legal action and a budget of at least 1, think raises
\* nothing and the action it returns is a legal action of current_state.
C1_ThinkReturnsLegalAction ==
    (RootLegal # {} /\ num_nodes >= 1) =>
        /\ ~Failed
        /\ pc = "done" => best_action \in RootLegal

C1_Witness ==
    /\ pc = "done"
    /\ num_nodes >= 2
    /\ Cardinality(RootLegal) >= 2
    /\ best_action \in RootLegal

\* C2: root.visits equals the number of completed iterations, at every point
\* of think, expanding or not, terminal root or not.
C2_RootVisitsCountIterations == tree[root_node].visits = iter

\* some iteration of this run expanded a node and some other did not
C2_Witness ==
    /\ pc = "loop"
    /\ iter = num_nodes
    /\ iter >= 3
    /\ Len(tree) > 1
    /\ Len(tree) < iter + 1
    /\ tree[root_node].visits = iter

\* C3: for every node, untried_actions and the keys of child_nodes are
\* disjoint, together they are the legal actions captured at its creation, and
\* their lengths add up to the number of those actions.
C3_UntriedAndChildrenPartition ==
    \A n \in Nodes :
        LET untried == SeqSet(tree[n].untried_actions)
            keys == Keys(tree[n].child_nodes)
        IN /\ untried \cap keys = {}
           /\ untried \cup keys = captured[n]
           /\ Len(tree[n].untried_actions) + Len(tree[n].child_nodes)
                  = Cardinality(captured[n])

C3_Witness ==
    \E n \in Nodes :
        /\ Len(tree[n].untried_actions) >= 1
        /\ Len(tree[n].child_nodes) >= 2
        /\ n # root_node

\* C4: every node has 0 <= wins <= visits, and a step leaves a node's counters
\* alone or adds 1 to visits and 0 or 1 to wins (wins never decreases).
C4_WinsBoundedAndMonotone ==
    /\ [](\A n \in Nodes : 0 <= tree[n].wins /\ tree[n].wins <= tree[n].visits)
    /\ [][\A n \in Nodes :
            \/ tree'[n].visits = tree[n].visits /\ tree'[n].wins = tree[n].wins
            \/ /\ tree'[n].visits = tree[n].visits + 1
               /\ tree'[n].wins - tree[n].wins \in {0, 1}]_vars

C4_Witness ==
    /\ pc = "loop"
    /\ \E n \in Nodes : tree[n].wins >= 1 /\ tree[n].wins < tree[n].visits
    /\ \E n \in Nodes : tree[n].visits >= 1 /\ tree[n].wins = 0

\* C5: at an iteration boundary, every node's visits is the number of
\* completed iterations whose selection/expansion path went through it.
C5_VisitsCountPaths ==
    pc = "loop" => \A n \in Nodes : tree[n].visits = passed[n]

C5_Witness ==
    /\ pc = "loop"
    /\ \E n \in Nodes \ {root_node} : passed[n] >= 2 /\ passed[n] < iter
    /\ \E n \in Nodes \ {root_node} : tree[tree[n].parent].parent # NoNode

\* C6: the state rollout returns is ended, so is_win asks for the outcome of
\* a terminal state only and its assertion never fails.
C6_RolloutEndsOnTerminalState ==
    /\ pc # "assertion_error"
    /\ pc = "backpropagate" => is_ended(curr_state) /\ points_values(curr_state) # NoOutcome

\* a play-out of two moves or more was handed to is_win
C6_Witness ==
    /\ pc = "backpropagate"
    /\ is_ended(curr_state)
    /\ Count(curr_state, 0) + 2 <= Count(state, 0)

\* C7: get_best_action on a root with children returns the key of a child
\* that no other child of the root exceeds in visits.
C7_BestActionHasMaxVisits ==
    pc = "done" =>
        \E i \in 1..Len(tree[root_node].child_nodes) :
            /\ tree[root_node].child_nodes[i][1] = best_action
            /\ \A c \in ChildIds(root_node) :
                   tree[c].visits <= tree[tree[root_node].child_nodes[i][2]].visits

\* children visits {a:2, b:7, c:1} give b
C7_Witness ==
    /\ pc = "done"
    /\ Len(tree[root_node].child_nodes) = 3
    /\ tree[tree[root_node].child_nodes[1][2]].visits = 2
    /\ tree[tree[root_node].child_nodes[2][2]].visits = 7
    /\ tree[tree[root_node].child_nodes[3][2]].visits = 1
    /\ best_action = tree[root_node].child_nodes[2][1]

\* C8: ucb answers infinity exactly for a node of 0 visits, under either
\* flag; and the child traverse_nodes picks among siblings of which one has 0
\* visits has 0 visits.
C8_UnvisitedScoresInfinity ==
    /\ \A n \in Nodes : \A is_opponent \in BOOLEAN :
           (ucb(tree, n, is_opponent) = Inf) <=> (tree[n].visits = 0)
    /\ (pc = "traverse" /\ node # root_node
           /\ \E c \in ChildIds(tree[node].parent) : tree[c].visits = 0)
        => tree[node].visits = 0

\* B with 5 visits and 3 wins comes first, A with 0 visits is picked
C8_Witness ==
    /\ pc = "traverse"
    /\ Len(tree[root_node].child_nodes) = 2
    /\ tree[tree[root_node].child_nodes[1][2]].visits = 5
    /\ tree[tree[root_node].child_nodes[1][2]].wins = 3
    /\ tree[tree[root_node].child_nodes[2][2]].visits = 0
    /\ node = tree[root_node].child_nodes[2][2]

\* C9: with a budget of 1 on a non-terminal state, think ends with exactly one
\* child of the root, root.visits = 1 and that child's visits = 1.
C9_SingleSimulation ==
    (num_nodes = 1 /\ ~is_ended(current_state) /\ pc \notin {"loop", "traverse", "expand", "rollout", "backpropagate"} ) =>
        /\ pc = "done"
        /\ Len(tree[root_node].child_nodes) = 1
        /\ tree[root_node].visits = 1
        /\ tree[tree[root_node].child_nodes[1][2]].visits = 1
        /\ Len(tree) = 2

C9_Witness ==
    /\ num_nodes = 1
    /\ ~is_ended(current_state)
    /\ pc = "done"
    /\ Len(tree[root_node].child_nodes) = 1
    /\ Len(tree[root_node].untried_actions) >= 2

\* C10: on a state without legal actions the root never gets a child, every
\* iteration still backpropagates to the root, and think ends in the error of
\* get_best_action: it never returns.
C10_EmptyRootEndsInError ==
    legal_actions(current_state) = << >> =>
        /\ Len(tree) = 1
        /\ tree[root_node].child_nodes = << >>
        /\ tree[root_node].visits = iter
        /\ pc \in {"loop", "traverse", "expand", "rollout", "backpropagate", "value_error"}
        /\ pc = "value_error" => iter = num_nodes

C10_Witness ==
    /\ legal_actions(current_state) = << >>
    /\ pc = "value_error"
    /\ iter >= 2
    /\ tree[root_node].visits = iter

\* the state reached from current_state by the parent_action values on the
\* way from the root to node n
RECURSIVE StateOf(_)
StateOf(n) ==
    IF tree[n].parent = NoNode THEN current_state
    ELSE next_state(StateOf(tree[n].parent), tree[n].parent_action)

\* C11: the node traverse_nodes returns has an untried action or no children,
\* the state it returns is the root state advanced by the parent_action values
\* down to that node, and the traversal changes neither the tree nor the
\* state it was given.
C11_TraverseReturnsFrontierNode ==
    /\ [](pc = "expand" =>
            /\ tree[node].untried_actions # << >> \/ tree[node].child_nodes = << >>
            /\ state = StateOf(node))
    /\ [][pc = "traverse" => tree' = tree /\ current_state' = current_state]_vars

\* a traversal that went down two levels
C11_Witness ==
    /\ pc = "expand"
    /\ Len(path) >= 3
    /\ node = Last(path)
    /\ state = StateOf(node)
    /\ state # current_state

\* C12: an iteration adds exactly one node when the node traversal reached
\* has an untried action, and none (simulation starts from that node's own
\* state) when it has not; no other step adds a node; after N iterations the
\* tree has at most N + 1 nodes.
C12_OneNodePerExpandingIteration ==
    /\ [](pc = "loop" => Len(tree) <= iter + 1)
    /\ [][/\ (pc = "expand" /\ tree[node].untried_actions # << >>) =>
               /\ Len(tree') = Len(tree) + 1
               /\ node' = Len(tree')
               /\ tree'[node'].parent = node
          /\ (pc = "expand" /\ tree[node].untried_actions = << >>) =>
               /\ tree' = tree
               /\ node' = node
               /\ curr_state' = state
          /\ pc # "expand" => Len(tree') = Len(tree)]_vars

\* a run in which some iterations expanded and at least two did not
C12_Witness ==
    /\ pc = "loop"
    /\ iter >= 4
    /\ Len(tree) >= 3
    /\ Len(tree) + 1 < iter + 1
    /\ ~is_ended(current_state)

\* C13: backpropagate(node, won) adds 1 to visits and won to wins on each of
\* the k nodes of the path from the root to node, both ends included, and
\* leaves every other node, and every node's parent, children and untried
\* actions, as they were; backpropagate(None, won) changes nothing.
C13_BackpropagateFrame ==
    /\ [](\A w \in BOOLEAN : backpropagate(tree, NoNode, w) = tree)
    /\ [][pc = "backpropagate" =>
            /\ DOMAIN tree' = DOMAIN tree
            /\ Cardinality({ n \in Nodes : tree'[n].visits = tree[n].visits + 1 })
                   = Len(path)
            /\ \A n \in Nodes :
                   IF n \in SeqSet(path)
                   THEN tree'[n] = [tree[n] EXCEPT !.visits = @ + 1, !.wins = @ + Bit(won)]
                   ELSE tree'[n] = tree[n]]_vars

\* a backpropagation from depth 2 that won, beside nodes off the path
C13_Witness ==
    /\ pc = "loop"
    /\ iter >= 1
    /\ won
    /\ Len(path) >= 3
    /\ node = Last(path)
    /\ \E n \in Nodes \ SeqSet(path) : tree[n].visits >= 1

\* the two terms of a visited child's score, in units of 1/Scale
WinRatio(n) == (Scale * tree[n].wins) \div tree[n].visits
Exploration(n) ==
    ISqrt((explore_faction * explore_faction * Scale
              * LnTable[tree[tree[n].parent].visits]) \div tree[n].visits)

\* C14: the child a descent step moves to is the first of greatest score
\* among its siblings, all scored with the flag "the player to move at the
\* parent's state is not the bot"; a visited child's score has exploitation
\* term 1 - wins/visits under that flag and wins/visits without it.
C14_OpponentFlagFromStateBefore ==
    /\ (pc \in {"traverse", "expand"} /\ node # root_node) =>
           LET p == tree[node].parent
               flag == current_player(StateOf(p)) # bot_identity
               items == tree[p].child_nodes
           IN \E i \in 1..Len(items) :
                 /\ items[i][2] = node
                 /\ \A j \in 1..Len(items) :
                        ucb(tree, items[j][2], flag) <= ucb(tree, node, flag)
                 /\ \A j \in 1..(i - 1) :
                        ucb(tree, items[j][2], flag) < ucb(tree, node, flag)
    /\ \A n \in Nodes \ {root_node} :
           (tree[n].visits > 0 /\ tree[tree[n].parent].visits > 0) =>
               /\ ucb(tree, n, TRUE) = (Scale - WinRatio(n)) + Exploration(n)
               /\ ucb(tree, n, FALSE) = WinRatio(n) + Exploration(n)

\* a second descent step, taken at a state where the opponent is to move,
\* to a child that is not the one of greatest wins/visits
C14_Witness ==
    /\ pc = "expand"
    /\ Len(path) >= 3
    /\ node = Last(path)
    /\ Len(tree[tree[node].parent].child_nodes) >= 2
    /\ current_player(StateOf(tree[node].parent)) # bot_identity
    /\ \E c \in ChildIds(tree[node].parent) :
           tree[c].wins * tree[node].visits > tree[node].wins * tree[c].visits

\* C15: whenever traverse_nodes scores a visited child, the child's parent
\* exists and has at least 1 visit, so the logarithm never raises; and at an
\* iteration boundary no node has more visits than its parent.
C15_ParentVisitedBeforeChild ==
    /\ pc # "math_error"
    /\ (pc = "traverse" /\ TraverseContinues(tree, node)) =>
           \A c \in ChildIds(node) :
               tree[c].visits > 0 =>
                   /\ tree[c].parent = node
                   /\ tree[c].parent # NoNode
                   /\ tree[tree[c].parent].visits >= 1
    /\ pc = "loop" =>
           \A n \in Nodes \ {root_node} : tree[n].visits <= tree[tree[n].parent].visits

\* siblings below the root are about to be scored
C15_Witness ==
    /\ pc = "traverse"
    /\ TraverseContinues(tree, node)
    /\ node # root_node
    /\ Len(tree[node].child_nodes) >= 2
    /\ \A c \in ChildIds(node) : tree[c].visits > 0
    /\ tree[node].visits < iter

Finished == pc \in {"done", "value_error"}

\* C16: on a finite game every descent of traverse_nodes ends, every rollout
\* ends, and think leaves its loop after exactly num_nodes iterations and
\* reaches get_best_action.
C16_ThinkTerminates ==
    /\ (pc = "traverse") ~> (pc = "expand")
    /\ (pc = "rollout") ~> (pc = "backpropagate")
    /\ <>Finished
    /\ [](Finished => iter = num_nodes)

\* a finished search of three iterations or more that went below the root
C16_Witness ==
    /\ pc = "done"
    /\ iter = num_nodes
    /\ num_nodes >= 3
    /\ Len(path) >= 3

Occurrences(s, x) == Cardinality({ i \in 1..Len(s) : s[i] = x })
Center == ActionOf(5)
Corners == { ActionOf(k) : k \in {1, 3, 7, 9} }

\* C17: at every step of rollout the weighted list holds each legal action 5
\* times if it is the center, 3 times if it is a corner, once otherwise, and
\* nothing else; the action applied is a legal action of the current state;
\* with the center as the only legal action the list is five times the
\* center and the center is played.
C17_WeightedRollout ==
    /\ [](\A st \in {state, curr_state} :
            LET legal == legal_actions(st)
                weighted == weighted_actions(legal)
            IN /\ SeqSet(weighted) = SeqSet(legal)
               /\ \A a \in SeqSet(legal) :
                      Occurrences(weighted, a) =
                          IF a = Center THEN 5 ELSE IF a \in Corners THEN 3 ELSE 1
               /\ legal = <<Center>> => weighted = <<Center, Center, Center, Center, Center>>)
    /\ [][(pc = "rollout" /\ pc' = "rollout") =>
            /\ \E a \in SeqSet(legal_actions(curr_state)) :
                   curr_state' = next_state(curr_state, a)
            /\ legal_actions(curr_state) = <<Center>> =>
                   curr_state' = next_state(curr_state, Center)]_vars

\* a play-out that started with the center as the only legal action
C17_Witness ==
    /\ pc = "rollout"
    /\ legal_actions(state) = <<Center>>
    /\ curr_state = next_state(state, Center)
    /\ node # root_node

\* C18: between iterations every node but the root has been visited at least
\* once, so every score traverse_nodes asks of ucb, under either flag, comes
\* from the finite branch and never is positive infinity.
C18_NoUnvisitedChildInSearch ==
    /\ pc = "loop" => \A n \in Nodes \ {root_node} : tree[n].visits >= 1
    /\ (pc = "traverse" /\ TraverseContinues(tree, node)) =>
           \A c \in ChildIds(node) :
               /\ tree[c].visits # 0
               /\ \A flag \in BOOLEAN : ucb(tree, c, flag) \notin {Inf, MathError}
               /\ ucb(tree, c, TRUE) = (Scale - WinRatio(c)) + Exploration(c)
               /\ ucb(tree, c, FALSE) = WinRatio(c) + Exploration(c)

\* scores are asked at the root of a tree that is three levels deep
C18_Witness ==
    /\ pc = "traverse"
    /\ node = root_node
    /\ TraverseContinues(tree, node)
    /\ Len(tree[node].child_nodes) >= 2
    /\ \E n \in Nodes : tree[n].parent \notin {NoNode, root_node}

\* C19: between iterations, every child of a node that still has an untried
\* action is a leaf that was visited exactly once.
C19_ChildrenOfOpenNodeAreFreshLeaves ==
    pc = "loop" =>
        \A n \in Nodes :
            tree[n].untried_actions # << >> =>
                \A c \in ChildIds(n) :
                    tree[c].visits = 1 /\ tree[c].child_nodes = << >>

\* a node below the root with two children and an action still untried
C19_Witness ==
    /\ pc = "loop"
    /\ \E n \in Nodes \ {root_node} :
           tree[n].untried_actions # << >> /\ Len(tree[n].child_nodes) >= 2

ChildVisits(n) ==
    SumOver([i \in 1..Len(tree[n].child_nodes) |-> tree[tree[n].child_nodes[i][2]].visits],
            Len(tree[n].child_nodes))

\* C20: between iterations, a root with a legal action has as many visits as
\* its children together, and every other node that had a legal action when
\* it was created has one visit more than its children together.
C20_VisitsConserved ==
    pc = "loop" =>
        /\ RootLegal # {} => tree[root_node].visits = ChildVisits(root_node)
        /\ \A n \in Nodes \ {root_node} :
               captured[n] # {} => tree[n].visits = 1 + ChildVisits(n)

\* a node below the root with children of its own, one of them visited twice
C20_Witness ==
    /\ pc = "loop"
    /\ \E n \in Nodes \ {root_node} :
           /\ captured[n] # {}
           /\ tree[n].child_nodes # << >>
           /\ tree[n].visits >= 3
    /\ \E n \in Nodes \ {root_node} : captured[n] = {} /\ tree[n].visits >= 2

====
